---- MODULE Spec2Model ----
(***************************************************************************)
(* Fork choice of go-quai (core/forkchoice.go): ForkChoice.ReorgNeeded and *)
(* ForkChoice.UntwistAndTrim over the ChainReader collaborator.            *)
(*                                                                         *)
(* The ChainReader is an interface: its answers (GetTd, CalcTd, PCCRC,     *)
(* GetDifficultyOrder) are drawn from bounded sets in Init and stay fixed  *)
(* during a behaviour; the headers of a call are chosen per call.          *)
(***************************************************************************)
EXTENDS Integers, Sequences, FiniteSets, TLC

\* ------------------------------------------------------------------ bounds
\* Largest total of the three components of a difficulty tuple.
MaxTd == 1
\* Number of states of the pseudo-random generator (its period).
RandMod == 4

\* --------------------------------------------------------------- constants
\* A difficulty tuple has one component per hierarchical level: [0], [1], [2].
NumLevels == 3

\* ------------------------------------------------------------------- data
\* *types.Header: nil, or a header with its hash and its number in the
\* node's own context, Number[types.QuaiNetworkContext].
NilHeader == [hash |-> "nil", number |-> 0]
Headers ==
    { [hash |-> "A", number |-> 1],
      [hash |-> "B", number |-> 1],
      [hash |-> "C", number |-> 2] }
HeaderArgs == Headers \cup {NilHeader}
Hashes == {h.hash : h \in Headers}

\* []*big.Int: nil (the empty slice), or a triple of naturals.
NilTd == << >>
Tds ==
    { <<a, b, c>> : a \in 0..MaxTd, b \in 0..MaxTd, c \in 0..MaxTd }
TdTuples == { t \in Tds : t[1] + t[2] + t[3] <= MaxTd }

\* error: nil, or a value with an identity (who created it) and a message.
NilErr == [src |-> "nil", msg |-> "<nil>"]
NotSyncedMsg == "slice is not synced"
NotCanonDomMsg == "PCCOP has found chain is not being built on canonical dom"
Msgs ==
    { NotSyncedMsg, NotCanonDomMsg,
      "pccrc: slice is not synced", "unknown ancestor" }
\* The errors the collaborator can hand back.
ChainErrors == [src : {"chain"}, msg : Msgs]
\* errors.New in the core: a fresh error value.
NewError(m) == [src |-> "core", msg |-> m]
ErrNilHeader == NewError("reorg beeing calculated on nil header")
ErrMissingTd == NewError("missing td")

\* preserve func(header) bool: nil, or a predicate given by the hashes it
\* holds of.
NilPreserve == [isNil |-> TRUE, prefers |-> {}]
Preserves ==
    {NilPreserve} \cup { [isNil |-> FALSE, prefers |-> s] : s \in SUBSET Hashes }

\* The goroutines of the import pipeline that share one ForkChoice.
Procs == {"g1", "g2"}

VARIABLES
    getTd,      \* chain.GetTd's answer: a tuple or nil
    calcTd,     \* chain.CalcTd's answer: [td, err]
    hlcrAns,    \* chain.HLCR's answer where the contract leaves it open
    orderAns,   \* chain.GetDifficultyOrder's answer: [order, err]
    pccrcAns,   \* chain.PCCRC's error (its termini are dropped by the caller)
    preserve,   \* ForkChoice.preserve
    rand,       \* ForkChoice.rand: the generator's state
    op,         \* the last call: "none", "ReorgNeeded", "UntwistAndTrim"
    current,    \* the last call's current header
    header,     \* the last call's header
    ret,        \* the last call's results: [reorg, err]
    calls,      \* the operations the last call invoked, in order
    out,        \* the lines the last call printed or logged
    pc,         \* per goroutine: where it is in ReorgNeeded
    snap,       \* per goroutine: the generator state it read
    raced       \* per goroutine: its draw overlapped another draw

vars ==
    << getTd, calcTd, hlcrAns, orderAns, pccrcAns, preserve, rand, op,
       current, header, ret, calls, out, pc, snap, raced >>

chainVars == << getTd, calcTd, hlcrAns, orderAns, pccrcAns, preserve >>
callVars == << op, current, header, ret, calls, out >>
procVars == << pc, snap, raced >>

\* ------------------------------------------------------------ collaborator
AllLeq(x, y) == \A i \in 1..NumLevels : x[i] <= y[i]

\* chain.HLCR(local, extern): "true if second tuple is greater than the
\* first", hierarchically. Never true unless some level of extern exceeds
\* local; true when extern dominates local and differs; otherwise the
\* collaborator's ordering decides (ans).
HLCR(l, e, ans) ==
    IF AllLeq(e, l) THEN FALSE
    ELSE IF AllLeq(l, e) THEN TRUE
    ELSE ans

HLCRUndecided(l, e) ==
    /\ l # NilTd
    /\ e # NilTd
    /\ ~AllLeq(e, l)
    /\ ~AllLeq(l, e)

CalcTdAnswers ==
    { [td |-> t, err |-> NilErr] : t \in TdTuples \cup {NilTd} }
        \cup { [td |-> NilTd, err |-> e] : e \in ChainErrors }

OrderAnswers ==
    [order : 0..(NumLevels - 1), err : ChainErrors \cup {NilErr}]

\* ------------------------------------------------------------- the generator
\* rand.Float64(): advances the generator and yields a value that is below
\* 0.5 for half of the generator's states.
Float64(s) ==
    LET n == (s + 1) % RandMod
    IN  [rand |-> n, heads |-> 2 * n < RandMod]


\* ------------------------------------------------------------ ReorgNeeded
\* Faulty variant: only current is tested for nil.
NilCheckCurrentOnly(cur, hdr) == cur = NilHeader

\* if current == nil || header == nil
NilCheck(cur, hdr) == cur = NilHeader \/ hdr = NilHeader

\* f.chain.GetTd(current.Hash(), current.Number[ctx].Uint64())
GetTd(cur) == getTd

\* f.chain.CalcTd(header)
CalcTd(hdr) == calcTd

\* Faulty variant: CalcTd's error is not looked at.
CalcTdFailedIgnored(ext) == FALSE

\* if err != nil { return false, err }
CalcTdFailed(ext) == ext.err # NilErr

\* if localTd == nil || externTd == nil
MissingTd(localTd, externTd) == localTd = NilTd \/ externTd = NilTd

\* Faulty variant: the tuples are handed to HLCR in the wrong order.
CompareTdSwapped(localTd, externTd) == HLCR(externTd, localTd, hlcrAns)

\* reorg := f.chain.HLCR(localTd, externTd)
CompareTd(localTd, externTd) == HLCR(localTd, externTd, hlcrAns)

\* equalTd := externTd[0].Cmp(localTd[0]) == 0 && ... [1] ... && ... [2] ...
EqualTd(localTd, externTd) ==
    /\ externTd[1] = localTd[1]
    /\ externTd[2] = localTd[2]
    /\ externTd[3] = localTd[3]

\* if !reorg && equalTd
TieBreakEntered(reorg, equalTd) == ~reorg /\ equalTd

\* Faulty variant: the higher candidate is taken for the lower one.
LowerFlipped(number, headNumber) == number > headNumber

\* if number < headNumber
Lower(number, headNumber) == number < headNumber

\* else if number == headNumber
SameNumber(number, headNumber) == number = headNumber

\* var currentPreserve, externPreserve bool
\* if f.preserve != nil { ... = f.preserve(current), f.preserve(header) }
Preserved(h) ==
    IF preserve.isNil THEN FALSE ELSE h.hash \in preserve.prefers

\* Faulty variant: Float64 is called before externPreserve is looked at.
ReachesFloat64Eager(currentPreserve, externPreserve) == ~currentPreserve

\* Go evaluates && and || left to right and stops early: Float64 is called
\* only when !currentPreserve holds and externPreserve does not.
ReachesFloat64(currentPreserve, externPreserve) ==
    ~currentPreserve /\ ~externPreserve

\* Faulty variant: the current head's preference is dropped.
ReorgNoSelfPreference(currentPreserve, externPreserve, heads) ==
    externPreserve \/ heads

\* Faulty variant: the candidate's preference is dropped.
ReorgCoinOnly(currentPreserve, externPreserve, heads) ==
    ~currentPreserve /\ heads

\* reorg = !currentPreserve && (externPreserve || f.rand.Float64() < 0.5)
Reorg(currentPreserve, externPreserve, heads) ==
    ~currentPreserve /\ (externPreserve \/ heads)

\* The body of "if !reorg && equalTd": f is what Float64 yields if called.
TieBreak(cur, hdr, f) ==
    LET number == hdr.number
        headNumber == cur.number
    IN  IF Lower(number, headNumber)
        THEN [reorg |-> TRUE, drew |-> FALSE, calls |-> << >>]
        ELSE IF SameNumber(number, headNumber)
        THEN LET currentPreserve == Preserved(cur)
                 externPreserve == Preserved(hdr)
                 drew == ReachesFloat64(currentPreserve, externPreserve)
             IN  [reorg |-> Reorg(currentPreserve, externPreserve, f.heads),
                  drew |-> drew,
                  calls |->
                      (IF preserve.isNil THEN << >>
                       ELSE <<"preserve", "preserve">>)
                      \o (IF drew THEN <<"Float64">> ELSE << >>)]
        ELSE [reorg |-> FALSE, drew |-> FALSE, calls |-> << >>]

CalcTdLine == <<"stdout", "calctd from forker">>

\* ReorgNeeded from entry to return: its results, whether it drew from the
\* generator, the operations it invoked and what it printed.
ReorgNeededRun(cur, hdr, f) ==
    IF NilCheck(cur, hdr)
    THEN [reorg |-> FALSE, err |-> ErrNilHeader, drew |-> FALSE,
          calls |-> << >>, out |-> << >>]
    ELSE
    LET localTd == GetTd(cur)
        ext == CalcTd(hdr)
        externTd == ext.td
    IN  IF CalcTdFailed(ext)
        THEN [reorg |-> FALSE, err |-> ext.err, drew |-> FALSE,
              calls |-> <<"GetTd", "CalcTd">>, out |-> <<CalcTdLine>>]
        ELSE IF MissingTd(localTd, externTd)
        THEN [reorg |-> FALSE, err |-> ErrMissingTd, drew |-> FALSE,
              calls |-> <<"GetTd", "CalcTd">>, out |-> <<CalcTdLine>>]
        ELSE
        LET reorg == CompareTd(localTd, externTd)
            equalTd == EqualTd(localTd, externTd)
        IN  IF TieBreakEntered(reorg, equalTd)
            THEN LET t == TieBreak(cur, hdr, f)
                 IN  [reorg |-> t.reorg, err |-> NilErr, drew |-> t.drew,
                      calls |-> <<"GetTd", "CalcTd", "HLCR">> \o t.calls,
                      out |-> <<CalcTdLine>>]
            ELSE [reorg |-> reorg, err |-> NilErr, drew |-> FALSE,
                  calls |-> <<"GetTd", "CalcTd", "HLCR">>,
                  out |-> <<CalcTdLine>>]

\* One call of ReorgNeeded by a single caller.
ReorgNeeded(cur, hdr) ==
    LET f == Float64(rand)
        r == ReorgNeededRun(cur, hdr, f)
    IN  /\ op' = "ReorgNeeded"
        /\ current' = cur
        /\ header' = hdr
        /\ ret' = [reorg |-> r.reorg, err |-> r.err]
        /\ calls' = r.calls
        /\ out' = r.out
        /\ rand' = IF r.drew THEN f.rand ELSE rand
        /\ UNCHANGED << chainVars, procVars >>

\* --------------------------------------------------------- UntwistAndTrim
\* headerOrder, err := f.chain.GetDifficultyOrder(header); if err != nil
OrderFailed(o) == o.err # NilErr

\* if err.Error() == "slice is not synced"
NotSynced(err) == err.msg = NotSyncedMsg

\* Faulty variant: the message compared with differs from PCCRC's by one character.
NotCanonDomTypo(err) ==
    err.msg = "PCCOP has found chain is not being built on canonical dom."

\* else if err.Error() == "PCCOP has found chain is not being built on ..."
NotCanonDom(err) == err.msg = NotCanonDomMsg

\* Faulty variant: the error is rebuilt from its message.
PropagatedErrRewrapped(err) == NewError(err.msg)

\* else { ...; return err }
PropagatedErr(err) == err

PCCRCLine(err) == <<"stdout", "PCCRC", err.msg>>

UntwistAndTrimRun(hdr) ==
    LET o == orderAns
    IN  IF OrderFailed(o)
        THEN [err |-> o.err, calls |-> <<"GetDifficultyOrder">>, out |-> << >>]
        ELSE
        LET err == pccrcAns
            cs == <<"GetDifficultyOrder", "PCCRC">>
        IN  IF err # NilErr
            THEN IF NotSynced(err)
                 THEN [err |-> NilErr, calls |-> cs,
                       out |-> <<PCCRCLine(err), PCCRCLine(err),
                                 <<"log.Debug", "Slice not synced, no nothing",
                                   hdr.hash>> >>]
                 ELSE IF NotCanonDom(err)
                 THEN [err |-> NilErr, calls |-> cs,
                       out |-> <<PCCRCLine(err)>>]
                 ELSE [err |-> PropagatedErr(err), calls |-> cs,
                       out |-> <<PCCRCLine(err), PCCRCLine(err)>>]
            ELSE [err |-> NilErr, calls |-> cs, out |-> <<PCCRCLine(err)>>]

\* One call of UntwistAndTrim by a single caller.
UntwistAndTrim(hdr) ==
    LET r == UntwistAndTrimRun(hdr)
    IN  /\ op' = "UntwistAndTrim"
        /\ current' = NilHeader
        /\ header' = hdr
        /\ ret' = [reorg |-> FALSE, err |-> r.err]
        /\ calls' = r.calls
        /\ out' = r.out
        /\ UNCHANGED << chainVars, rand, procVars >>

\* ------------------------------------------------------- concurrent callers
\* A goroutine runs ReorgNeeded up to the call of Float64 (or to its return,
\* when the call does not reach it). Nothing up to there writes shared state.
GoReorgNeeded(p, cur, hdr) ==
    /\ pc[p] = "idle"
    /\ LET r == ReorgNeededRun(cur, hdr, Float64(rand))
       IN  pc' = [pc EXCEPT ![p] = IF r.drew THEN "rng_read" ELSE "idle"]
    /\ UNCHANGED << chainVars, callVars, rand, snap, raced >>

\* Faulty variant: the draw waits until no other goroutine is inside Float64.
GoFloat64ReadLocked(p) ==
    /\ pc[p] = "rng_read"
    /\ \A q \in Procs \ {p} : pc[q] # "rng_write"
    /\ snap' = [snap EXCEPT ![p] = rand]
    /\ pc' = [pc EXCEPT ![p] = "rng_write"]
    /\ UNCHANGED << chainVars, callVars, rand, raced >>

\* Float64 reads the generator's state. No lock is held: the read overlaps
\* the draw of every goroutine that has read and not yet written.
GoFloat64Read(p) ==
    /\ pc[p] = "rng_read"
    /\ snap' = [snap EXCEPT ![p] = rand]
    /\ pc' = [pc EXCEPT ![p] = "rng_write"]
    /\ LET inside == {q \in Procs \ {p} : pc[q] = "rng_write"}
       IN  raced' = [q \in Procs |->
                        IF inside # {} /\ q \in inside \cup {p}
                        THEN TRUE ELSE raced[q]]
    /\ UNCHANGED << chainVars, callVars, rand >>

\* Float64 writes the generator's state back and ReorgNeeded returns. After
\* an overlapping draw the state written is whatever the race leaves.
GoFloat64Write(p) ==
    /\ pc[p] = "rng_write"
    /\ rand' \in (IF raced[p] THEN 0..(RandMod - 1)
                  ELSE {Float64(snap[p]).rand})
    /\ pc' = [pc EXCEPT ![p] = "idle"]
    /\ snap' = [snap EXCEPT ![p] = 0]
    /\ raced' = [raced EXCEPT ![p] = FALSE]
    /\ UNCHANGED << chainVars, callVars >>

\* A goroutine runs UntwistAndTrim: it reads the collaborator only.
GoUntwistAndTrim(p, hdr) ==
    /\ pc[p] = "idle"
    /\ UntwistAndTrimRun(hdr).err \in ChainErrors \cup {NilErr}
    /\ UNCHANGED vars

\* ---------------------------------------------------------- specifications
NoRet == [reorg |-> FALSE, err |-> NilErr]

InitCall ==
    /\ op = "none"
    /\ current = NilHeader
    /\ header = NilHeader
    /\ ret = NoRet
    /\ calls = << >>
    /\ out = << >>

InitProcs ==
    /\ pc = [p \in Procs |-> "idle"]
    /\ snap = [p \in Procs |-> 0]
    /\ raced = [p \in Procs |-> FALSE]

\* NewForkChoice with any chain, any preserve and any seed.
InitReorg ==
    /\ getTd \in TdTuples \cup {NilTd}
    /\ calcTd \in CalcTdAnswers
    /\ hlcrAns \in (IF HLCRUndecided(getTd, calcTd.td) THEN BOOLEAN ELSE {FALSE})
    /\ preserve \in Preserves
    /\ rand \in 0..(RandMod - 1)
    /\ orderAns = [order |-> 0, err |-> NilErr]
    /\ pccrcAns = NilErr

InitUntwist ==
    /\ getTd = NilTd
    /\ calcTd = [td |-> NilTd, err |-> NilErr]
    /\ hlcrAns = FALSE
    /\ preserve = NilPreserve
    /\ rand = 0
    /\ orderAns \in OrderAnswers
    /\ pccrcAns \in ChainErrors \cup {NilErr}

Init == InitReorg /\ InitCall /\ InitProcs

Next == \E cur \in HeaderArgs, hdr \in HeaderArgs : ReorgNeeded(cur, hdr)

Spec == Init /\ [][Next]_vars

InitU == InitUntwist /\ InitCall /\ InitProcs

NextUntwist == \E hdr \in Headers : UntwistAndTrim(hdr)

SpecUntwist == InitU /\ [][NextUntwist]_vars

NextConc ==
    \/ \E p \in Procs, cur \in HeaderArgs, hdr \in HeaderArgs :
          GoReorgNeeded(p, cur, hdr)
    \/ \E p \in Procs : GoFloat64Read(p)
    \/ \E p \in Procs : GoFloat64Write(p)
    \/ \E p \in Procs, hdr \in Headers : GoUntwistAndTrim(p, hdr)

SpecConc == Init /\ [][NextConc]_vars

\* ------------------------------------------------------------------ claims
\* What the claims say of the last call, in terms of its inputs alone.
ReorgReturned == op = "ReorgNeeded"
UntwistReturned == op = "UntwistAndTrim"
NonNil(cur, hdr) == cur # NilHeader /\ hdr # NilHeader
BothTds == calcTd.err = NilErr /\ getTd # NilTd /\ calcTd.td # NilTd
Tied == BothTds /\ \A i \in 1..NumLevels : getTd[i] = calcTd.td[i]
CandidateGreater == BothTds /\ HLCR(getTd, calcTd.td, hlcrAns)
Prefers(h) == ~preserve.isNil /\ h.hash \in preserve.prefers
Invoked(name) == \E i \in 1..Len(calls) : calls[i] = name
Returned(reorg, err) == ret = [reorg |-> reorg, err |-> err]
BenignMsg(e) == e.msg \in {NotSyncedMsg, NotCanonDomMsg}
\* The inputs with which a call reaches the coin flip.
CoinFlipCase(cur, hdr) ==
    /\ NonNil(cur, hdr)
    /\ Tied
    /\ ~HLCR(getTd, calcTd.td, hlcrAns)
    /\ cur.number = hdr.number
    /\ ~Prefers(cur)
    /\ ~Prefers(hdr)

\* C1: with both headers non-nil, both tuples present and the hierarchical
\* compare reporting the candidate greater, ReorgNeeded returns (true, nil).
C1_GreaterTdReorgs ==
    (ReorgReturned /\ NonNil(current, header) /\ CandidateGreater)
        => Returned(TRUE, NilErr)

\* C1 witness: such a call returned true although the candidate is higher
\* and the predicate prefers the current head.
C1_Witness ==
    /\ ReorgReturned
    /\ NonNil(current, header)
    /\ CandidateGreater
    /\ header.number > current.number
    /\ Prefers(current)
    /\ ~Prefers(header)
    /\ ret.reorg

C3_LowerNumberReorgs ==
    (/\ ReorgReturned
     /\ NonNil(current, header)
     /\ Tied
     /\ header.number < current.number)
        => /\ Returned(TRUE, NilErr)
           /\ ~Invoked("Float64")
           /\ ~Invoked("preserve")

\* C3 witness: such a call returned true with the current head preferred.
C3_Witness ==
    /\ ReorgReturned
    /\ NonNil(current, header)
    /\ Tied
    /\ header.number < current.number
    /\ Prefers(current)
    /\ ~Prefers(header)
    /\ ret.reorg

\* C4: a nil current or a nil header gives (false, the nil-header error)
\* with no collaborator operation, predicate or generator touched.
C4_NilHeaderRejected ==
    (ReorgReturned /\ ~NonNil(current, header))
        => /\ Returned(FALSE, ErrNilHeader)
           /\ calls = << >>

\* C4 witness: a call with a header and a nil current, on a chain that has
\* both tuples, was rejected.
C4_Witness ==
    /\ ReorgReturned
    /\ current = NilHeader
    /\ header # NilHeader
    /\ BothTds
    /\ ret.err = ErrNilHeader

\* C5 as claimed: with non-nil headers, an absent tuple (GetTd's or CalcTd's)
\* gives (false, the missing-td error) and no compare or tie-break.
C5_AbsentTdIsMissingData ==
    (/\ ReorgReturned
     /\ NonNil(current, header)
     /\ (getTd = NilTd \/ calcTd.td = NilTd))
        => /\ Returned(FALSE, ErrMissingTd)
           /\ ~Invoked("HLCR")

\* C5 amended: with non-nil headers, a failing CalcTd gives (false, CalcTd's
\* error); with CalcTd succeeding, an absent tuple gives (false, the
\* missing-td error); neither case invokes the compare or the tie-break.
C5_CalcErrThenMissingTd ==
    (/\ ReorgReturned
     /\ NonNil(current, header)
     /\ (calcTd.err # NilErr \/ getTd = NilTd \/ calcTd.td = NilTd))
        => /\ ret.reorg = FALSE
           /\ ret.err = (IF calcTd.err # NilErr THEN calcTd.err
                         ELSE ErrMissingTd)
           /\ ~Invoked("HLCR")
           /\ ~Invoked("preserve")
           /\ ~Invoked("Float64")

\* C5 witness: CalcTd succeeded with a tuple, GetTd had none, and the call
\* failed with the missing-td error.
C5_Witness ==
    /\ ReorgReturned
    /\ NonNil(current, header)
    /\ calcTd.err = NilErr
    /\ calcTd.td # NilTd
    /\ getTd = NilTd
    /\ Returned(FALSE, ErrMissingTd)

\* C6: UntwistAndTrim returns nil when PCCRC succeeds or fails with one of
\* the two benign conditions.
C6_BenignDowngraded ==
    (/\ UntwistReturned
     /\ orderAns.err = NilErr
     /\ (pccrcAns = NilErr \/ BenignMsg(pccrcAns)))
        => ret.err = NilErr

\* C6 witness: PCCRC failed with "not built on canonical dom" and the call
\* returned nil.
C6_Witness ==
    /\ UntwistReturned
    /\ orderAns.err = NilErr
    /\ pccrcAns.msg = NotCanonDomMsg
    /\ ret.err = NilErr

\* C7: UntwistAndTrim returns a failing GetDifficultyOrder's error itself,
\* without invoking PCCRC, and returns every PCCRC error that is not one of
\* the two benign conditions itself.
C7_GenuineFailurePropagated ==
    UntwistReturned
        => /\ orderAns.err # NilErr
                => (ret.err = orderAns.err /\ ~Invoked("PCCRC"))
           /\ (/\ orderAns.err = NilErr
               /\ pccrcAns # NilErr
               /\ ~BenignMsg(pccrcAns))
                => ret.err = pccrcAns

\* C7 witness: PCCRC failed with a message that only contains a benign one,
\* and the call returned that error.
C7_Witness ==
    /\ UntwistReturned
    /\ orderAns.err = NilErr
    /\ pccrcAns.msg = "pccrc: slice is not synced"
    /\ ret.err = pccrcAns

C9_TieBreakFormula ==
    (/\ ReorgReturned
     /\ NonNil(current, header)
     /\ Tied
     /\ ~HLCR(getTd, calcTd.td, hlcrAns)
     /\ current.number = header.number)
        => /\ ret.err = NilErr
           /\ Prefers(current) => ~ret.reorg
           /\ (~Prefers(current) /\ Prefers(header)) => ret.reorg
           /\ (~Prefers(current) /\ ~Prefers(header))
                => (ret.reorg <=> 2 * rand < RandMod)

\* C9 witness: with no predicate at all (nil) the coin came up true.
C9_Witness ==
    /\ ReorgReturned
    /\ CoinFlipCase(current, header)
    /\ preserve.isNil
    /\ current # header
    /\ ret.reorg

\* C9, the other outcome of the coin: it came up false.
C9_WitnessTails ==
    /\ ReorgReturned
    /\ CoinFlipCase(current, header)
    /\ current # header
    /\ ~ret.reorg
    /\ ret.err = NilErr

\* C10: nothing serializes the draw: a goroutine about to read the generator
\* can do so whatever the others are doing, also while another one is between
\* its read and its write; and the only step that changes state shared by
\* the goroutines is the write of a draw: calls that return without drawing,
\* and UntwistAndTrim, leave the generator and the other goroutines alone.
C10_NoLockOnGenerator ==
    /\ [](\A p \in Procs : pc[p] = "rng_read" => ENABLED GoFloat64Read(p))
    /\ [][rand' # rand
            => \E p \in Procs : pc[p] = "rng_write" /\ pc'[p] = "idle"]_vars
    /\ [][(\A p \in Procs : pc[p] = "idle" /\ pc'[p] = "idle")
            => UNCHANGED << rand, snap, raced >>]_vars

\* C10 witness: both goroutines have read the same generator state and
\* neither has written: two unserialized draws are in flight.
C10_Witness ==
    /\ \A p \in Procs : pc[p] = "rng_write" /\ raced[p]
    /\ snap["g1"] = snap["g2"]
====
